---- MODULE Spec2Model ----
(***************************************************************************)
(* Model of boy_surface.py: BoysSurfaceGenerator.__init__ (validation of   *)
(* resolution and ratio), BoysSurfaceGenerator._xyz (the Bryant-Kusner     *)
(* map, in exact arithmetic over Q(sqrt 5)(i)) and                         *)
(* BoysSurfaceGenerator.build (vertex list and triangle list, one loop     *)
(* iteration per step).  Indices are 1-based as in the source.             *)
(***************************************************************************)
EXTENDS Integers, Sequences, FiniteSets

VARIABLES pc, resolution, ratio, n_r, n_phi, fr, verts, faces, i, j

vars == <<pc, resolution, ratio, n_r, n_phi, fr, verts, faces, i, j>>

(***************************************************************************)
(* Bounds of the explored inputs.  ratio is the rational ratio / RatioDen. *)
(***************************************************************************)
MaxRes == 5
RatioDen == 4
MaxRatioNum == 12

Resolutions == 0..MaxRes
RatioNums == (0 - 2)..MaxRatioNum

(***************************************************************************)
(* Exact arithmetic.  A real is [a, b, d] = (a + b*sqrt(5)) / d with d > 0 *)
(* in lowest terms; a complex number is [re, im] of two reals.             *)
(***************************************************************************)
Abs(x) == IF x < 0 THEN 0 - x ELSE x

RECURSIVE Gcd(_, _)
Gcd(x, y) == IF y = 0 THEN x ELSE Gcd(y, x % y)

RNorm(a, b, d) ==
    LET k == Gcd(Gcd(Abs(a), Abs(b)), Abs(d))
        s == IF d < 0 THEN 0 - 1 ELSE 1
    IN  [a |-> (s * a) \div k, b |-> (s * b) \div k, d |-> (s * d) \div k]

Rat(p, q) == RNorm(p, 0, q)
RAdd(x, y) == RNorm(x.a * y.d + y.a * x.d, x.b * y.d + y.b * x.d, x.d * y.d)
RNeg(x) == [a |-> 0 - x.a, b |-> 0 - x.b, d |-> x.d]
RSub(x, y) == RAdd(x, RNeg(y))
RMul(x, y) == RNorm(x.a * y.a + 5 * x.b * y.b, x.a * y.b + x.b * y.a, x.d * y.d)
RInv(x) == RNorm(x.d * x.a, 0 - x.d * x.b, x.a * x.a - 5 * x.b * x.b)
RDiv(x, y) == RMul(x, RInv(y))

Complex(re, im) == [re |-> re, im |-> im]
CReal(x) == Complex(x, Rat(0, 1))
CAdd(x, y) == Complex(RAdd(x.re, y.re), RAdd(x.im, y.im))
CSub(x, y) == Complex(RSub(x.re, y.re), RSub(x.im, y.im))
CMul(x, y) == Complex(RSub(RMul(x.re, y.re), RMul(x.im, y.im)),
                      RAdd(RMul(x.re, y.im), RMul(x.im, y.re)))
CDiv(x, y) ==
    LET m == RAdd(RMul(y.re, y.re), RMul(y.im, y.im))
        n == CMul(x, Complex(y.re, RNeg(y.im)))
    IN  Complex(RDiv(n.re, m), RDiv(n.im, m))

RECURSIVE CPow(_, _)
CPow(w, k) == IF k = 0 THEN CReal(Rat(1, 1)) ELSE CMul(w, CPow(w, k - 1))

Sqrt5 == [a |-> 0, b |-> 1, d |-> 1]
COne == CReal(Rat(1, 1))
CZero == CReal(Rat(0, 1))

(***************************************************************************)
(* _xyz: the Bryant-Kusner immersion, one definition per assignment.  The  *)
(* locals of the call are kept in the record fr.                           *)
(***************************************************************************)
z6(w) == CPow(w, 6)
\* mutant of denom: the constant term added instead of subtracted
denom_PlusOne(w, z) == CAdd(CAdd(z, CMul(CReal(Sqrt5), CPow(w, 3))), COne)
denom(w, z) == CSub(CAdd(z, CMul(CReal(Sqrt5), CPow(w, 3))), COne)
g1(w, dn) == RMul(Rat(0 - 3, 2), CDiv(CMul(w, CSub(COne, CPow(w, 4))), dn).im)
g2(w, dn) == RMul(Rat(0 - 3, 2), CDiv(CMul(w, CAdd(COne, CPow(w, 4))), dn).re)
g3(z, dn) == RSub(CDiv(CAdd(COne, z), dn).im, Rat(1, 2))
g(x1, x2, x3) == RAdd(RAdd(RMul(x1, x1), RMul(x2, x2)), RMul(x3, x3))
xyz(x1, x2, x3, gg) == <<RDiv(x1, gg), RDiv(x2, gg), RDiv(x3, gg)>>

NoFrame == [w |-> <<>>, z6 |-> <<>>, denom |-> <<>>,
            g1 |-> <<>>, g2 |-> <<>>, g3 |-> <<>>, g |-> <<>>]

(***************************************************************************)
(* __init__: validation and the stored grid sizes.                         *)
(***************************************************************************)
\* Python round() of the rational p / q (q > 0): nearest integer, ties to even.
Round(p, q) ==
    LET f == p \div q
        r == p % q
    IN  IF 2 * r < q THEN f
        ELSE IF 2 * r > q THEN f + 1
        ELSE IF f % 2 = 0 THEN f ELSE f + 1

\* n_phi = ratio * resolution, as the rational ProductNum / RatioDen
ProductNum(res, rat) == rat * res

RaisesResolution(res) == res < 2
\* mutant of RaisesNPhi: the evenness test dropped
RaisesNPhi_NoParity(res, rat) == ProductNum(res, rat) < 4 * RatioDen
RaisesNPhi(res, rat) ==
    \/ ProductNum(res, rat) < 4 * RatioDen
    \/ Round(ProductNum(res, rat), RatioDen) % 2 # 0
Raises(res, rat) == RaisesResolution(res) \/ RaisesNPhi(res, rat)

StoredNR(res) == res
StoredNPhi(res, rat) == Round(ProductNum(res, rat), RatioDen)

(***************************************************************************)
(* build: helper indices.                                                  *)
(***************************************************************************)
ring == n_phi
centre_idx == 1
first_ring_start == 2
outer_ring_start == first_ring_start + (n_r - 2) * ring
\* mutant of half_turn: a full turn, the halving forgotten
half_turn_Full == ring
half_turn == ring \div 2

\* A vertex is its parameter point w = (rn / rd) * exp(2 pi i * pj / pn)
\* and its position p.  exp(i * Phi) lies outside Q(sqrt 5)(i), so the
\* position of a grid vertex is left unevaluated (the empty tuple).
GridVertex(k, jj) ==
    [rn |-> k, rd |-> n_r - 1, pj |-> jj, pn |-> ring, p |-> <<>>]
CentreVertex(point) ==
    [rn |-> 0, rd |-> 1, pj |-> 0, pn |-> 1, p |-> point]

\* mutant of GridVertices: the r = 0 sample is not omitted
GridVertices_KeepsOrigin ==
    [t \in 1..(n_r * ring) |->
        GridVertex((t - 1) \div ring, (t - 1) % ring)]

\* r_vals = linspace(0, 1, n_r)[1:], phi_vals = linspace(0, 2 pi, ring,
\* endpoint = False), meshgrid "ij", ravel: ring-major, angle-minor
GridVertices ==
    [t \in 1..((n_r - 1) * ring) |->
        GridVertex(((t - 1) \div ring) + 1, (t - 1) % ring)]

\* np.vstack((centre_xyz, verts_np))
PrependCentre(point, grid) == <<CentreVertex(point)>> \o grid

\* mutant of StripFaces: the quad split along the other diagonal
StripFaces_OtherDiagonal(ii, jj) ==
    LET inner == first_ring_start + ii * ring
        outer == inner + ring
        a == inner + jj
        b == outer + jj
        c == outer + ((jj + 1) % ring)
        d == inner + ((jj + 1) % ring)
    IN  <<<<a, b, d>>, <<b, c, d>>>>

StripFaces(ii, jj) ==
    LET inner == first_ring_start + ii * ring
        outer == inner + ring
        a == inner + jj
        b == outer + jj
        c == outer + ((jj + 1) % ring)
        d == inner + ((jj + 1) % ring)
    IN  <<<<a, b, c>>, <<a, c, d>>>>

\* mutant of MoebiusFaces: the ring offsets are not wrapped modulo ring
MoebiusFaces_NoWrap(jj) ==
    LET a == outer_ring_start + jj
        an == outer_ring_start + jj + 1
        b == outer_ring_start + jj + half_turn
        bn == outer_ring_start + jj + half_turn + 1
    IN  <<<<an, b, a>>, <<an, bn, b>>>>

MoebiusFaces(jj) ==
    LET a == outer_ring_start + jj
        an == outer_ring_start + ((jj + 1) % ring)
        b == outer_ring_start + ((jj + half_turn) % ring)
        bn == outer_ring_start + ((jj + half_turn + 1) % ring)
    IN  <<<<an, b, a>>, <<an, bn, b>>>>

FanFaces(jj) ==
    LET v2 == first_ring_start + jj
        v3 == first_ring_start + ((jj + 1) % ring)
    IN  <<<<centre_idx, v3, v2>>>>

(***************************************************************************)
(* The state machine.                                                      *)
(***************************************************************************)
Init ==
    /\ pc = "new"
    /\ resolution \in Resolutions
    /\ ratio \in RatioNums
    /\ n_r = 0
    /\ n_phi = 0
    /\ fr = NoFrame
    /\ verts = <<>>
    /\ faces = <<>>
    /\ i = 0
    /\ j = 0

\* __init__ raises ValueError: nothing is stored
ConstructRaise ==
    /\ pc = "new"
    /\ Raises(resolution, ratio)
    /\ pc' = "rejected"
    /\ UNCHANGED <<resolution, ratio, n_r, n_phi, fr, verts, faces, i, j>>

\* __init__ returns: n_r and n_phi are stored
ConstructOk ==
    /\ pc = "new"
    /\ ~Raises(resolution, ratio)
    /\ n_r' = StoredNR(resolution)
    /\ n_phi' = StoredNPhi(resolution, ratio)
    /\ pc' = "constructed"
    /\ UNCHANGED <<resolution, ratio, fr, verts, faces, i, j>>

\* build, step 1 and the grid part of step 2: verts_np holds the grid
BuildGrid ==
    /\ pc = "constructed"
    /\ verts' = GridVertices
    /\ pc' = "xyz_powers"
    /\ UNCHANGED <<resolution, ratio, n_r, n_phi, fr, faces, i, j>>

\* _xyz(0j): w, z6 and denom
XyzPowers ==
    /\ pc = "xyz_powers"
    /\ fr' = [fr EXCEPT !.w = CZero,
                        !.z6 = z6(CZero),
                        !.denom = denom(CZero, z6(CZero))]
    /\ pc' = "xyz_aux"
    /\ UNCHANGED <<resolution, ratio, n_r, n_phi, verts, faces, i, j>>

\* _xyz(0j): the auxiliary functions g1, g2, g3
XyzAux ==
    /\ pc = "xyz_aux"
    /\ fr' = [fr EXCEPT !.g1 = g1(fr.w, fr.denom),
                        !.g2 = g2(fr.w, fr.denom),
                        !.g3 = g3(fr.z6, fr.denom)]
    /\ pc' = "xyz_g"
    /\ UNCHANGED <<resolution, ratio, n_r, n_phi, verts, faces, i, j>>

\* _xyz(0j): the common denominator g
XyzG ==
    /\ pc = "xyz_g"
    /\ fr' = [fr EXCEPT !.g = g(fr.g1, fr.g2, fr.g3)]
    /\ pc' = "centre"
    /\ UNCHANGED <<resolution, ratio, n_r, n_phi, verts, faces, i, j>>

\* _xyz returns, the centre is prepended, the face list starts empty
BuildCentre ==
    /\ pc = "centre"
    /\ verts' = PrependCentre(xyz(fr.g1, fr.g2, fr.g3, fr.g), verts)
    /\ faces' = <<>>
    /\ i' = 0
    /\ j' = 0
    /\ pc' = IF n_r - 2 > 0 /\ ring > 0 THEN "strips"
             ELSE IF ring > 0 THEN "moebius" ELSE "mesh"
    /\ UNCHANGED <<resolution, ratio, n_r, n_phi, fr>>

\* 3-a) one iteration of the inner loop of the radial strips
StripStep ==
    /\ pc = "strips"
    /\ faces' = faces \o StripFaces(i, j)
    /\ IF j + 1 < ring
         THEN /\ j' = j + 1
              /\ i' = i
              /\ pc' = pc
         ELSE /\ j' = 0
              /\ i' = IF i + 1 < n_r - 2 THEN i + 1 ELSE 0
              /\ pc' = IF i + 1 < n_r - 2 THEN pc ELSE "moebius"
    /\ UNCHANGED <<resolution, ratio, n_r, n_phi, fr, verts>>

\* 3-b) one iteration of the Moebius strip loop
MoebiusStep ==
    /\ pc = "moebius"
    /\ faces' = faces \o MoebiusFaces(j)
    /\ j' = IF j + 1 < ring THEN j + 1 ELSE 0
    /\ pc' = IF j + 1 < ring THEN pc ELSE "fan"
    /\ UNCHANGED <<resolution, ratio, n_r, n_phi, fr, verts, i>>

\* 3-c) one iteration of the central fan loop
FanStep ==
    /\ pc = "fan"
    /\ faces' = faces \o FanFaces(j)
    /\ j' = IF j + 1 < ring THEN j + 1 ELSE 0
    /\ pc' = IF j + 1 < ring THEN pc ELSE "mesh"
    /\ UNCHANGED <<resolution, ratio, n_r, n_phi, fr, verts, i>>

\* 4) the vertex and face lists are handed to rt.mesh, unchanged
CreateMesh ==
    /\ pc = "mesh"
    /\ pc' = "done"
    /\ UNCHANGED <<resolution, ratio, n_r, n_phi, fr, verts, faces, i, j>>

Next ==
    \/ ConstructRaise
    \/ ConstructOk
    \/ BuildGrid
    \/ XyzPowers
    \/ XyzAux
    \/ XyzG
    \/ BuildCentre
    \/ StripStep
    \/ MoebiusStep
    \/ FanStep
    \/ CreateMesh

Spec == Init /\ [][Next]_vars

(***************************************************************************)
(* Vocabulary of the properties, written from the layout the              *)
(* documentation gives: index 1 is the centre, ring k (k = 0 innermost)    *)
(* occupies the indices 2 + k * n_phi .. 1 + (k + 1) * n_phi.              *)
(***************************************************************************)
ValidConfiguration == n_r >= 2 /\ n_phi >= 4 /\ n_phi % 2 = 0
VertexCount == 1 + (n_r - 1) * n_phi
StripCount == 2 * (n_r - 2) * n_phi
JoinCount == 2 * n_phi
FanCount == n_phi
RingIndex(k, jj) == 2 + k * n_phi + (jj % n_phi)
RingOf(v) == (v - 2) \div n_phi
StripsEmitted == pc \in {"moebius", "fan", "mesh", "done"}
JoinEmitted == pc \in {"fan", "mesh", "done"}
Built == pc \in {"mesh", "done"}
Constructed == pc \notin {"new", "rejected"}
IndexSet(f) == {f[1], f[2], f[3]}
DirEdges(f) == {<<f[1], f[2]>>, <<f[2], f[3]>>, <<f[3], f[1]>>}
UndirEdges(f) == {{f[1], f[2]}, {f[2], f[3]}, {f[3], f[1]}}
StripPositions == 1..StripCount
JoinPositions == (StripCount + 1)..(StripCount + JoinCount)
FanPositions == (StripCount + JoinCount + 1)..(StripCount + JoinCount + FanCount)
DiskPositions == StripPositions \cup FanPositions
Users(e, ps) == {q \in ps : e \in UndirEdges(faces[q])}

\* C1: for every valid configuration build produces 1 + (n_r - 1) * n_phi
\* vertices and 2 * (n_r - 2) * n_phi strip faces, then 2 * n_phi join faces,
\* then n_phi fan faces, 2 * (n_r - 1) * n_phi + n_phi in all; n_r = 4 and
\* n_phi = 6 give 19 vertices and 42 faces.
C1_Counts ==
    /\ (pc = "moebius" /\ j = 0) => Len(faces) = StripCount
    /\ (pc = "fan" /\ j = 0) => Len(faces) = StripCount + JoinCount
    /\ Built =>
        /\ ValidConfiguration
        /\ Len(verts) = VertexCount
        /\ Len(faces) = StripCount + JoinCount + FanCount
        /\ Len(faces) = 2 * (n_r - 1) * n_phi + n_phi
        /\ (n_r = 4 /\ n_phi = 6) => (Len(verts) = 19 /\ Len(faces) = 42)

C1_Witness ==
    pc = "done" /\ n_r = 4 /\ n_phi = 6 /\ Len(verts) = 19 /\ Len(faces) = 42

\* C2: every face triple emitted by build consists of three indices in
\* 1..N, N = 1 + (n_r - 1) * n_phi, that are pairwise distinct.
C2_FacesValid ==
    \A q \in 1..Len(faces) :
        /\ \A t \in 1..3 : faces[q][t] \in 1..VertexCount
        /\ Cardinality(IndexSet(faces[q])) = 3

C2_Witness ==
    /\ pc = "done"
    /\ n_r >= 3
    /\ \E q \in StripPositions : Cardinality(IndexSet(faces[q])) = 3
    /\ \E q \in JoinPositions : Cardinality(IndexSet(faces[q])) = 3
    /\ \E q \in FanPositions : Cardinality(IndexSet(faces[q])) = 3

\* C3 (as claimed): construction fails if and only if resolution < 2 or
\* round(ratio * resolution) is not an even integer >= 4, and otherwise
\* stores n_r = resolution and n_phi = round(ratio * resolution).
C3_FailsIffRoundedInvalid ==
    LET rounded == Round(ratio * resolution, RatioDen)
        invalid == resolution < 2 \/ ~(rounded >= 4 /\ rounded % 2 = 0)
    IN  pc # "new" =>
            /\ (pc = "rejected") <=> invalid
            /\ Constructed => (n_r = resolution /\ n_phi = rounded)

\* C4: a rejected configuration produces no vertex and no face, and in
\* every state in which build has produced a vertex or a face the stored
\* n_r is >= 2 and the stored n_phi is an even integer >= 4, so that
\* 2 * half_turn = n_phi.
C4_FailFast ==
    /\ pc = "rejected" => (verts = <<>> /\ faces = <<>> /\ n_r = 0 /\ n_phi = 0)
    /\ (verts # <<>> \/ faces # <<>>) =>
        /\ n_r >= 2
        /\ n_phi >= 4
        /\ n_phi % 2 = 0
        /\ 2 * half_turn = n_phi

C4_Witness ==
    /\ pc = "moebius"
    /\ verts # <<>>
    /\ faces # <<>>
    /\ 2 * half_turn = n_phi

\* C5: the join consists, for every j in [0, n_phi), of exactly the
\* triangles (outer[j+1], outer[j+half], outer[j]) and (outer[j+1],
\* outer[j+half+1], outer[j+half]), half = n_phi / 2, offsets modulo n_phi;
\* every index of these triangles lies on the outermost ring, and the
\* pairing the triangles realise, j to the offset of the second corner of
\* its first triangle, is opposite(j) = (j + n_phi / 2) mod n_phi and is an
\* involution.
C5_MoebiusJoin ==
    JoinEmitted =>
        LET half == n_phi \div 2
            last == n_r - 2
            first(jj) == faces[StripCount + 2 * jj + 1]
            second(jj) == faces[StripCount + 2 * jj + 2]
            partner(jj) == first(jj)[2] - RingIndex(last, 0)
        IN  /\ Len(faces) >= StripCount + JoinCount
            /\ (pc = "fan" /\ j = 0) => Len(faces) = StripCount + JoinCount
            /\ \A jj \in 0..(n_phi - 1) :
                /\ first(jj) = <<RingIndex(last, jj + 1),
                                 RingIndex(last, jj + half),
                                 RingIndex(last, jj)>>
                /\ second(jj) = <<RingIndex(last, jj + 1),
                                  RingIndex(last, jj + half + 1),
                                  RingIndex(last, jj + half)>>
                /\ partner(jj) = (jj + half) % n_phi
                /\ partner(jj) \in 0..(n_phi - 1)
                /\ partner(partner(jj)) = jj
            /\ \A q \in JoinPositions : \A t \in 1..3 :
                /\ RingOf(faces[q][t]) = last
                /\ verts[faces[q][t]].rn = n_r - 1

C5_Witness ==
    /\ pc = "done"
    /\ n_phi = 6
    /\ n_r = 3
    /\ faces[StripCount + 1] = <<9, 11, 8>>
    /\ faces[StripCount + 2] = <<9, 12, 11>>

\* C6: for every ring pair (i, i + 1), i from 0 to n_r - 3, and every j in
\* [0, n_phi) build emits exactly the triangles (inner[j], outer[j],
\* outer[j+1]) and (inner[j], outer[j+1], inner[j+1]), j + 1 modulo n_phi,
\* ring k occupying the indices 2 + k * n_phi .. 1 + (k + 1) * n_phi; every
\* strip triangle uses two consecutive rings only, and the outermost ring
\* (the one the join works on) is the outer ring of the last strip.
C6_RadialStrips ==
    /\ Built => \A v \in 2..Len(verts) :
            /\ verts[v].rn = RingOf(v) + 1
            /\ verts[v].pj = (v - 2) % n_phi
    /\ StripsEmitted =>
        /\ Len(faces) >= StripCount
        /\ (pc = "moebius" /\ j = 0) => Len(faces) = StripCount
        /\ \A ii \in 0..(n_r - 3) : \A jj \in 0..(n_phi - 1) :
            LET q == 2 * (ii * n_phi + jj)
            IN  /\ faces[q + 1] = <<RingIndex(ii, jj),
                                    RingIndex(ii + 1, jj),
                                    RingIndex(ii + 1, jj + 1)>>
                /\ faces[q + 2] = <<RingIndex(ii, jj),
                                    RingIndex(ii + 1, jj + 1),
                                    RingIndex(ii, jj + 1)>>
                /\ {RingOf(v) : v \in IndexSet(faces[q + 1])} = {ii, ii + 1}
                /\ {RingOf(v) : v \in IndexSet(faces[q + 2])} = {ii, ii + 1}
    /\ (JoinEmitted /\ n_r >= 3) =>
            RingOf(faces[StripCount][2]) = RingOf(faces[StripCount + 1][3])

C6_Witness ==
    /\ pc = "done"
    /\ n_r = 4
    /\ n_phi = 4
    /\ Len(faces) >= StripCount
    /\ faces[StripCount] = <<9, 10, 6>>

\* C7 (as claimed): every undirected edge shared by exactly two faces among
\* the central-fan and radial-strip faces is traversed in opposite
\* directions by those two faces.
C7_DiskConsistentlyWound ==
    pc = "done" =>
        \A q1 \in DiskPositions : \A q2 \in DiskPositions :
            q1 < q2 =>
                \A e \in DirEdges(faces[q1]) \cap DirEdges(faces[q2]) :
                    Cardinality(Users({e[1], e[2]}, DiskPositions)) # 2

\* C8: the evaluator at w = 0 has denom = -1, g1 = g2 = 0, g3 = -1/2 and
\* g = 1/4, divides by nothing that is zero, returns (0, 0, -2), and build
\* stores that point at index 1, ahead of all grid vertices.
C8_Centre ==
    /\ pc \in {"xyz_aux", "xyz_g", "centre"} =>
        /\ fr.w = CZero
        /\ fr.denom = CReal(Rat(0 - 1, 1))
        /\ fr.denom # CZero
    /\ pc \in {"xyz_g", "centre"} =>
        /\ fr.g1 = Rat(0, 1)
        /\ fr.g2 = Rat(0, 1)
        /\ fr.g3 = Rat(0 - 1, 2)
    /\ pc = "centre" =>
        /\ fr.g = Rat(1, 4)
        /\ fr.g # Rat(0, 1)
    /\ pc \in {"strips", "moebius", "fan", "mesh", "done"} =>
        /\ Len(verts) >= 1
        /\ verts[1].p = <<Rat(0, 1), Rat(0, 1), Rat(0 - 2, 1)>>
        /\ verts[1].rn = 0
        /\ \A v \in 2..Len(verts) : verts[v].rn >= 1

C8_Witness ==
    /\ pc = "done"
    /\ fr.g = Rat(1, 4)
    /\ verts[1].p = <<Rat(0, 1), Rat(0, 1), Rat(0 - 2, 1)>>
    /\ Len(verts) > 1

\* C9 (as claimed): every undirected edge occurring in the face list
\* belongs to exactly two faces.
C9_ClosedSurface ==
    pc = "done" =>
        \A q \in 1..Len(faces) : \A e \in UndirEdges(faces[q]) :
            Cardinality(Users(e, 1..Len(faces))) = 2

\* C10 (as claimed): no two entries of the face list consist of the same
\* three vertex indices.
C10_NoRepeatedTriangle ==
    \A q1 \in 1..Len(faces) : \A q2 \in 1..Len(faces) :
        q1 # q2 => IndexSet(faces[q1]) # IndexSet(faces[q2])

====
